---- MODULE Spec2Model ----
(***************************************************************************)
(* Model of team/content.py (scmdb_py_dev): the data-preparation and       *)
(* plot-construction functions of the methylation browser.                 *)
(*                                                                         *)
(* Python values are tagged records (field t), so that values of different *)
(* Python types can be compared.  The outcome of a call is a record        *)
(* [kind |-> "return", val |-> v] or [kind |-> "raise", exc |-> e]; every  *)
(* function of content.py is an operator from its arguments and the data   *)
(* directory it reads to a result [out |-> outcome, log |-> events], where *)
(* log lists the functions entered and the databases opened, in order.     *)
(***************************************************************************)
EXTENDS Integers, Sequences, FiniteSets, TLC

VARIABLES
    call,          \* the request being served: op, args, the data directory it
                   \* reads, its outcome and event log
    trace_colors,  \* content.py global trace_colors: undefined or a dict
    rcc,           \* the in-flight randomize_cluster_colors request
    gcp            \* the in-flight get_cluster_plot request

vars == <<call, trace_colors, rcc, gcp>>

-----------------------------------------------------------------------------
(* Bounds of the model *)

MaxValue == 2          \* methylation values and percentile bounds range over 0..MaxValue
MaxCluster == 3        \* cluster_ordered ranges over 1..MaxCluster
MaxPoints == 2         \* longest list of tSNE points
MaxDepth == 2          \* frames of randomize_cluster_colors the interpreter allows
MaxQuery == 2          \* longest search string typed
MaxNum == 4            \* largest colour count requested

-----------------------------------------------------------------------------
(* Python values *)

None == [t |-> "None"]
NaN == [t |-> "nan"]
Num(n) == [t |-> "float", v |-> n]
Str(s) == [t |-> "str", v |-> s]          \* s is a sequence of tokens
List(s) == [t |-> "list", v |-> s]
Dict(d) == [t |-> "dict", v |-> d]
Class(c) == [t |-> "class", v |-> c]

Return(v) == [kind |-> "return", val |-> v]
Raise(e) == [kind |-> "raise", exc |-> e]
R(o, l) == [out |-> o, log |-> l]

Returned(r) == r.out.kind = "return"

\* Python truthiness of the values the code tests with `not x`
Truthy(x) ==
    CASE x.t = "None" -> FALSE
      [] x.t = "list" -> Len(x.v) > 0
      [] x.t = "str" -> x.v # <<>>
      [] OTHER -> TRUE

-----------------------------------------------------------------------------
(* Gene IDs are strings, modelled as sequences of tokens so that the       *)
(* substring test and the LIKE prefix match of the code are computed.      *)

M1 == <<"ENSMUSG", "1">>
M2 == <<"ENSMUSG", "2">>
H1 == <<"ENSG", "1">>
Genes == {M1, M2, H1}
EmptyStr == <<>>

Species == {"mouse_published", "human_hv1_published"}

IsPrefix(p, s) == Len(p) <= Len(s) /\ SubSeq(s, 1, Len(p)) = p
Contains(s, tok) == \E i \in DOMAIN s : s[i] = tok

\* A row of the gene_names table
NameRow(g) == Dict([geneID |-> Str(g), geneName |-> Str(<<"name">> \o g)])
\* A row of the orthologs table
OrthRow(m, h) == Dict([mmu_gID |-> Str(m), hsa_gID |-> Str(h)])

-----------------------------------------------------------------------------
(* set_color_by_percentile: content.py 201-221.  A float is Num(n) or NaN; *)
(* comparing a str with a float raises TypeError.                          *)

set_color_by_percentile_NoUpper(this, start, end) ==
    IF this.t = "nan" THEN Return(Str(<<"grey">>))
    ELSE IF this.t # "float" THEN Raise("TypeError")
    ELSE IF this.v < start.v THEN Return(start)
    ELSE Return(this)

set_color_by_percentile(this, start, end) ==
    IF this.t = "nan" THEN Return(Str(<<"grey">>))
    ELSE IF this.t # "float" THEN Raise("TypeError")
    ELSE IF this.v < start.v THEN Return(start)
    ELSE IF this.v > end.v THEN Return(end)
    ELSE Return(this)

-----------------------------------------------------------------------------
(* The data directory.  A record d with                                    *)
(*   dirs   the species that have an ensembles/<species> directory,        *)
(*   files  per species and gene, where the gene's methylation file lies:  *)
(*          "own" (datasets/<species>/), "other" (another dataset          *)
(*          directory only) or "none",                                     *)
(*   rows   per gene the content of its methylation file,                  *)
(*   names  per species the gene_names table: st is "ok", "error" (the     *)
(*          query raises sqlite3.Error) or "unopenable" (connect raises),  *)
(*   orth   the orthologs table, likewise,                                 *)
(*   tsne, tsne3d  per species the tSNE point files: st is "ok",           *)
(*          "absent" or "ioerror" (the file exists but cannot be read),    *)
(*   order  mm_hs_homologous_cluster.txt.                                  *)

NoFiles == [g \in Genes |-> "none"]
NoTable == [st |-> "ok", rows |-> <<>>]
NoPoints == [st |-> "absent", pts |-> <<>>]

EmptyData ==
    [dirs |-> {},
     files |-> [s \in Species |-> NoFiles],
     rows |-> [g \in Genes |-> <<>>],
     names |-> [s \in Species |-> NoTable],
     orth |-> NoTable,
     tsne |-> [s \in Species |-> NoPoints],
     tsne3d |-> [s \in Species |-> NoPoints],
     order |-> [st |-> "absent", rows |-> <<>>],
     modules |-> [st |-> "absent", rows |-> <<>>],
     corr |-> NoTable]

DbStatus == {"ok", "error", "unopenable"}

\* species_exists: content.py 79-90
species_exists(d, species) == species \in d.dirs

\* The dataset directories in which glob finds a file <gene>*: content.py 113, 543, 609
GlobDirs(d, species, gene) ==
    IF species \notin d.dirs \/ gene.t # "str" THEN {}
    ELSE {d.files[species][g] : g \in {x \in Genes : IsPrefix(gene.v, x)}} \ {"none"}

\* The file glob(...)[0] names; the gene IDs passed are whole IDs, so at most
\* one file matches
FileRows(d, gene) == d.rows[CHOOSE g \in Genes : IsPrefix(gene.v, g)]

\* gene_exists: content.py 93-119 (True, or a falsy False/None)
gene_exists(d, species, gene) == GlobDirs(d, species, gene) # {}

\* The first row of a table that satisfies Match (cursor.fetchone)
FirstMatch(rows, Match(_)) ==
    LET hits == {i \in DOMAIN rows : Match(rows[i])}
    IN IF hits = {} THEN None
       ELSE rows[CHOOSE i \in hits : \A j \in hits : i <= j]

NoOrtholog == Dict([mmu_gID |-> None, hsa_gID |-> None])

\* find_orthologs: content.py 224-263
find_orthologs(d, mmu_gid, hsa_gid) ==
    IF ~Truthy(mmu_gid) /\ ~Truthy(hsa_gid)
    THEN R(Return(NoOrtholog), <<"find_orthologs">>)
    ELSE LET log == <<"find_orthologs", "sqlite3.connect">>
             value == IF Truthy(mmu_gid) THEN mmu_gid ELSE hsa_gid
             Match(row) == IF Truthy(mmu_gid) THEN row.v.mmu_gID = value
                           ELSE row.v.hsa_gID = value
             found == FirstMatch(d.orth.rows, Match)
         IN CASE d.orth.st = "unopenable" -> R(Raise("sqlite3.OperationalError"), log)
              [] d.orth.st = "error" ->
                   \* the handler's print formats the undefined name `species`
                   R(Raise("NameError"), log)
              [] OTHER ->
                   IF ~Truthy(found) THEN R(Return(NoOrtholog), log)
                   ELSE R(Return(found), log)

\* gene_id_to_name: content.py 427-456
gene_id_to_name(d, species, query) ==
    IF ~species_exists(d, species) \/ query = Str(EmptyStr) \/ query = None
    THEN R(Return(List(<<>>)), <<"gene_id_to_name">>)
    ELSE LET log == <<"gene_id_to_name", "sqlite3.connect">>
             db == d.names[species]
             Match(row) == IsPrefix(query.v, row.v.geneID.v)
             found == FirstMatch(db.rows, Match)
         IN CASE db.st = "unopenable" -> R(Raise("sqlite3.OperationalError"), log)
              [] db.st = "error" -> R(Return(None), log)
              [] OTHER ->
                   \* dict(query_results); dict(None) raises TypeError
                   IF found = None THEN R(Raise("TypeError"), log)
                   ELSE R(Return(found), log)

\* x[key] for a str key: content.py 472, 1094, 1933, ...
GetItem(x, key) ==
    IF x.t = "dict"
    THEN IF key \in DOMAIN x.v THEN Return(x.v[key]) ELSE Raise("KeyError")
    ELSE Raise("TypeError")

-----------------------------------------------------------------------------
(* Sequencing of calls: an exception raised by r ends the caller too.      *)

Then(r, K(_)) ==
    IF r.out.kind = "raise" THEN r
    ELSE LET k == K(r.out.val) IN R(k.out, r.log \o k.log)

Enter(name, r) == R(r.out, <<name>> \o r.log)
Pure(o) == R(o, <<>>)

-----------------------------------------------------------------------------
(* tSNE points and methylation rows *)

\* A row of tsne_points_ordered.tsv
Point(samp, c) == [samp |-> samp, cluster_ordered |-> c]

\* get_cluster_points: content.py 335-356
get_cluster_points(d, species) ==
    Enter("get_cluster_points",
        IF ~species_exists(d, species) THEN Pure(Return(None))
        ELSE IF d.tsne[species].st # "ok" THEN Pure(Return(None))
        ELSE Pure(Return(List(d.tsne[species].pts))))

\* is_3D_data_exists: content.py 359-368
is_3D_data_exists(d, species) == d.tsne3d[species].st # "absent"

\* get_3D_cluster_points: content.py 371-392
get_3D_cluster_points(d, species) ==
    Enter("get_3D_cluster_points",
        IF ~species_exists(d, species) THEN Pure(Return(None))
        ELSE IF d.tsne3d[species].st # "ok"
             \* the handler formats two fields from one argument
             THEN Pure(Raise("IndexError"))
        ELSE Pure(Return(List(d.tsne3d[species].pts))))

\* pandas.merge(cluster, mch, on='samp', how='left'): content.py 569-573, 636-640
RECURSIVE LeftJoin(_, _)
LeftJoin(pts, rows) ==
    IF pts = <<>> THEN <<>>
    ELSE LET p == Head(pts)
             hits == SelectSeq(rows, LAMBDA r : r.samp = p.samp)
             joined == IF hits = <<>>
                       THEN <<[normalized |-> NaN] @@ p>>
                       ELSE [i \in DOMAIN hits |->
                               [normalized |-> Num(hits[i].normalized)] @@ p]
         IN joined \o LeftJoin(Tail(pts), rows)

\* sort_values(by='cluster_ordered', ascending=True), as an insertion sort
RECURSIVE InsertByCluster(_, _)
InsertByCluster(row, sorted) ==
    IF sorted = <<>> THEN <<row>>
    ELSE IF row.cluster_ordered < Head(sorted).cluster_ordered
         THEN <<row>> \o sorted
         ELSE <<Head(sorted)>> \o InsertByCluster(row, Tail(sorted))

RECURSIVE SortByCluster(_)
SortByCluster(rows) ==
    IF rows = <<>> THEN <<>>
    ELSE InsertByCluster(rows[Len(rows)], SortByCluster(SubSeq(rows, 1, Len(rows) - 1)))

\* dataframe_merged[dataframe_merged.normalized < quantile(0.99)]: content.py 642-646.
\* For 1 to 100 values the interpolated 0.99 quantile lies above the second
\* largest value and at most at the largest, so the rows kept are those
\* below the largest value; NaN compares false.
DropOutliers(rows) ==
    LET vals == {rows[i].normalized.v : i \in {j \in DOMAIN rows : rows[j].normalized.t = "float"}}
    IN SelectSeq(rows, LAMBDA r : r.normalized.t = "float"
                                  /\ \E m \in vals : r.normalized.v < m)

\* get_gene_methylation: content.py 579-653
get_gene_methylation(d, species, methylationType, gene, outliers) ==
    Enter("get_gene_methylation",
        IF ~species_exists(d, species) \/ ~gene_exists(d, species, gene)
        THEN Pure(Return(List(<<>>)))
        ELSE Then(get_cluster_points(d, species), LAMBDA cluster :
             IF FileRows(d, gene) = <<>> THEN Pure(Raise("EmptyDataError"))
             ELSE IF ~Truthy(cluster) THEN Pure(Raise("KeyError"))
             ELSE LET merged == LeftJoin(cluster.v, FileRows(d, gene))
                      kept == IF outliers THEN merged ELSE DropOutliers(merged)
                  IN Pure(Return(List(SortByCluster(kept))))))

\* The per-sample mean of the appended rows: content.py 565.  A mean is kept
\* as the exact fraction [sum, n].
MeanRows(rows) ==
    LET samps == {rows[i].samp : i \in DOMAIN rows}
        RECURSIVE Sum(_)
        Sum(rs) == IF rs = <<>> THEN 0 ELSE Head(rs).normalized + Sum(Tail(rs))
        Of(s) == SelectSeq(rows, LAMBDA r : r.samp = s)
        RECURSIVE Ordered(_)
        Ordered(S) == IF S = {} THEN <<>>
                      ELSE LET m == CHOOSE x \in S : \A y \in S : x <= y
                           IN <<m>> \o Ordered(S \ {m})
        order == Ordered(samps)
    IN [i \in DOMAIN order |->
          [samp |-> order[i],
           normalized |-> [sum |-> Sum(Of(order[i])), n |-> Len(Of(order[i]))]]]

\* The loop of get_mult_gene_methylation: content.py 539-563
RECURSIVE AppendGenes(_, _, _)
AppendGenes(d, species, genes) ==
    IF genes = <<>> THEN Pure(Return(<<>>))
    ELSE IF ~gene_exists(d, species, Head(genes)) THEN AppendGenes(d, species, Tail(genes))
    ELSE IF "own" \notin GlobDirs(d, species, Head(genes)) THEN Pure(Raise("IndexError"))
    ELSE IF FileRows(d, Head(genes)) = <<>> THEN Pure(Raise("EmptyDataError"))
    ELSE Then(AppendGenes(d, species, Tail(genes)), LAMBDA rest :
              Pure(Return(FileRows(d, Head(genes)) \o rest)))

\* get_mult_gene_methylation: content.py 519-576
get_mult_gene_methylation(d, species, methylationType, genes) ==
    Enter("get_mult_gene_methylation",
        IF ~species_exists(d, species) THEN Pure(Return(List(<<>>)))
        ELSE Then(AppendGenes(d, species, genes), LAMBDA df_methyl :
             \* groupby(by='samp') of a frame without columns
             IF df_methyl = <<>> THEN Pure(Raise("KeyError"))
             ELSE Then(get_cluster_points(d, species), LAMBDA cluster :
                  IF ~Truthy(cluster) THEN Pure(Raise("KeyError"))
                  ELSE Pure(Return(List(SortByCluster(
                           LeftJoin(cluster.v, MeanRows(df_methyl)))))))))

\* convert_geneID_mmu_hsa: content.py 459-481
convert_geneID_mmu_hsa(d, species, geneID) ==
    Enter("convert_geneID_mmu_hsa",
        IF geneID.t # "str" THEN Pure(Raise("TypeError"))
        ELSE IF species = "mouse_published" \/ species = "mmu"
        THEN IF ~Contains(geneID.v, "ENSMUSG")
             THEN Then(find_orthologs(d, Str(EmptyStr), geneID), LAMBDA mmu :
                  Then(find_orthologs(d, Str(EmptyStr), geneID), LAMBDA o :
                       Pure(GetItem(o, "mmu_gID"))))
             ELSE Pure(Return(geneID))
        ELSE IF Contains(geneID.v, "ENSMUSG")
             THEN Then(find_orthologs(d, geneID, Str(EmptyStr)), LAMBDA gene2 :
                  Then(find_orthologs(d, geneID, Str(EmptyStr)), LAMBDA o :
                       Pure(GetItem(o, "hsa_gID"))))
             ELSE Pure(Return(geneID)))

\* get_ortholog_cluster_order: content.py 656-687
RECURSIVE ClusterOrder(_, _)
ClusterOrder_AllTuples(rows, clusters) ==
    clusters \o [k \in 1..(2 * Len(rows)) |->
                    IF k % 2 = 1 THEN <<"mmu", rows[(k + 1) \div 2].mouse>>
                    ELSE <<"hsa", rows[k \div 2].human>>]

ClusterOrder(rows, clusters) ==
    IF rows = <<>> THEN clusters
    ELSE LET mmu_cluster == <<"mmu", Head(rows).mouse>>
             hsa_cluster == <<"hsa", Head(rows).human>>
             c1 == IF \E i \in DOMAIN clusters : clusters[i] = mmu_cluster
                   THEN clusters ELSE Append(clusters, mmu_cluster)
             c2 == IF \E i \in DOMAIN c1 : c1[i] = hsa_cluster
                   THEN c1 ELSE Append(c1, hsa_cluster)
         IN ClusterOrder(Tail(rows), c2)

get_ortholog_cluster_order(d) ==
    Enter("get_ortholog_cluster_order",
        IF d.order.st # "ok" THEN Pure(Return(List(<<>>)))
        ELSE Pure(Return(List(ClusterOrder(d.order.rows, <<>>)))))

-----------------------------------------------------------------------------
(* Colours *)

\* generate_cluster_colors: content.py 143-174.  colorlover (ColorBrewer) has
\* qualitative scales for 3 to 12 colours only, so cl.scales[str(num)] raises
\* KeyError below 3; seed stands for the random choice of scale and sample.
\* A scale of n colours: cl.scales[str(n)]['qual'][name], cl.interp(scale, n)
Scale(n, seed) == [i \in 1..n |-> <<"rgb", seed, i>>]

\* random.sample(c, k)
Sample(c, k) == IF k > Len(c) THEN Raise("ValueError") ELSE Return(List(SubSeq(c, 1, k)))

generate_cluster_colors(num, seed) ==
    IF num < 12
    THEN IF num \notin 3..12 THEN R(Raise("KeyError"), <<"generate_cluster_colors">>)
         ELSE R(Sample(Scale(num, seed), num), <<"generate_cluster_colors">>)
    ELSE LET num_rounded == ((num + 9) \div 10) * 10
         IN R(Sample(Scale(num_rounded, seed), num), <<"generate_cluster_colors">>)

Seeds == {1, 2}

\* dict.update: content.py 194
Update(a, b) == [k \in DOMAIN a \cup DOMAIN b |-> IF k \in DOMAIN b THEN b[k] ELSE a[k]]

Undefined == [t |-> "undefined"]
EmptyDict == Dict(<<>>)

-----------------------------------------------------------------------------
(* get_cluster_plot: content.py 691-1059 *)

Max(S) == CHOOSE x \in S : \A y \in S : y <= x

IsMouse(species) == species = "mmu" \/ species = "mouse_published"

\* The sorted (key, legendgroup) pairs of traces_2d: content.py 852-899, 977-1024
TracesOf(points, grouping, max_cluster, is3d) ==
    LET Biosample(p) == IF "biosample" \in DOMAIN p THEN p.biosample - 1 ELSE 0
        Key(p) == (IF is3d THEN p[grouping] ELSE p.cluster_ordered)
                  + max_cluster * Biosample(p)
        keys == {Key(points[i]) : i \in DOMAIN points}
        First(k) == points[CHOOSE i \in DOMAIN points :
                        /\ Key(points[i]) = k
                        /\ \A j \in DOMAIN points : Key(points[j]) = k => i <= j]
        RECURSIVE Sorted(_)
        Sorted(S) == IF S = {} THEN <<>>
                     ELSE LET m == CHOOSE x \in S : \A y \in S : x <= y
                          IN <<[key |-> m, legendgroup |-> First(m)[grouping]]>>
                             \o Sorted(S \ {m})
    IN Sorted(keys)

\* get_cluster_plot up to the loop that fills trace_colors: the traces, or
\* the exception raised before: content.py 764-767, 843-852, 961-977
PlotTraces(d, species, grouping, seed) ==
    LET is3d == is_3D_data_exists(d, species)
        loaded == IF is3d THEN get_3D_cluster_points(d, species)
                  ELSE get_cluster_points(d, species)
    IN Then(loaded, LAMBDA points :
         IF ~is3d /\ ~Truthy(points) THEN Pure(Raise("FailToGraphException"))
         \* points_3d[0] of None or of an empty list
         ELSE IF points = None THEN Pure(Raise("TypeError"))
         ELSE IF points.v = <<>> THEN Pure(Raise("IndexError"))
         ELSE LET g == IF grouping \in DOMAIN points.v[1] THEN grouping
                       ELSE "cluster_ordered"
                  max_cluster == IF IsMouse(species) THEN 16
                      ELSE Max({points.v[i].cluster_ordered : i \in DOMAIN points.v}) + 1
                  top == Max({points.v[i][g] : i \in DOMAIN points.v})
                  num_colors == IF is3d THEN top + 1 ELSE top
              IN Then(generate_cluster_colors(num_colors, seed), LAMBDA colors :
                      Pure(Return(TracesOf(points.v, g, max_cluster, is3d)))))

\* One round of the loop over enumerate(sorted(traces_2d.items())):
\* content.py 943-948, 1046-1051; i counts from 0
FillOne(tc, traces, i) ==
    LET k == <<"cluster_color", traces[i + 1].legendgroup - 1>>
        old == IF k \in DOMAIN tc.v THEN tc.v[k] ELSE <<>>
    IN Dict(Update(tc.v, [x \in {k} |-> Append(old, i)]))

RECURSIVE FillFrom(_, _, _)
FillFrom(tc, traces, i) ==
    IF i >= Len(traces) THEN tc ELSE FillFrom(FillOne(tc, traces, i), traces, i + 1)

\* After the loop: content.py 950-957, 1053-1059
PlotFinish(species, traces) ==
    IF IsMouse(species) /\ ~(\A i \in 17..22 : \E j \in DOMAIN traces : traces[j].key = i)
    THEN Raise("KeyError")
    ELSE Return(Dict([traces_2d |-> traces]))

\* The whole call, run without interleaving: the outcome and the value it
\* leaves in trace_colors
get_cluster_plot(d, species, grouping, seed) ==
    LET r == Enter("get_cluster_plot", PlotTraces(d, species, grouping, seed))
    IN IF r.out.kind = "raise" THEN [out |-> r.out, log |-> r.log, tc |-> EmptyDict]
       ELSE [out |-> PlotFinish(species, r.out.val), log |-> r.log,
             tc |-> FillFrom(EmptyDict, r.out.val, 0)]

-----------------------------------------------------------------------------
(* Plot-generating functions.  The figure a call returns is Html; the     *)
(* construction of layouts and the rendering by the charting library are   *)
(* not part of the model.                                                  *)

Html == Str(<<"html">>)

\* [f(x) for x in xs]: content.py 1081-1082, 1520-1521, 1535-1536
RECURSIVE MapCalls(_, _)
MapCalls(F(_), xs) ==
    IF xs = <<>> THEN Pure(Return(<<>>))
    ELSE Then(F(Head(xs)), LAMBDA y :
         Then(MapCalls(F, Tail(xs)), LAMBDA ys : Pure(Return(<<y>> \o ys))))

\* gene_id_to_name(species, gene)['geneName']: content.py 1094, 1099, 1523, 1933
GeneLabel(d, species, gene) ==
    Then(gene_id_to_name(d, species, gene), LAMBDA info : Pure(GetItem(info, "geneName")))

\* get_methylation_scatter: content.py 1062-1104 (and 1106-1279 on success)
get_methylation_scatter(d, species, methylationType, query) ==
    Enter("get_methylation_scatter",
      Then(MapCalls(LAMBDA gene : convert_geneID_mmu_hsa(d, species, gene), query),
        LAMBDA genes :
          LET fetched ==
                IF Len(genes) = 1
                THEN Then(get_gene_methylation(d, species, methylationType, genes[1], TRUE),
                       LAMBDA points :
                         Then(GeneLabel(d, species, genes[1]), LAMBDA geneName :
                              Pure(Return(points))))
                ELSE Then(get_mult_gene_methylation(d, species, methylationType, genes),
                       LAMBDA points :
                         Then(MapCalls(LAMBDA gene : GeneLabel(d, species, gene), genes),
                              LAMBDA names : Pure(Return(points))))
          IN Then(fetched, LAMBDA points :
                  IF ~Truthy(points) THEN Pure(Raise("FailToGraphException"))
                  ELSE Pure(Return(Html)))))

\* A per-cluster median table (pandas DataFrame): its column labels and
\* whether it has rows
EmptyFrame == [cols |-> <<>>, rows |-> FALSE]
FrameEmpty(df) == df.cols = <<>> \/ ~df.rows
AddColumn(df, label, hasRows) ==
    [cols |-> IF \E i \in DOMAIN df.cols : df.cols[i] = label THEN df.cols
              ELSE Append(df.cols, label),
     rows |-> df.rows \/ hasRows]

\* median_cluster_mch(get_gene_methylation(...), level, 'cluster_ortholog'):
\* content.py 320-332, 1524; sort_values of a frame without columns raises
MedianColumn(d, species, methylationType, gene) ==
    Then(get_gene_methylation(d, species, methylationType, gene, TRUE), LAMBDA points :
         IF ~Truthy(points) THEN R(Raise("KeyError"), <<"median_cluster_mch">>)
         ELSE R(Return(TRUE), <<"median_cluster_mch">>))

\* The loop over the genes of the species viewed: content.py 1522-1524, 1537-1539
RECURSIVE OwnColumns(_, _, _, _, _)
OwnColumns(d, species, methylationType, genes, df) ==
    IF genes = <<>> THEN Pure(Return(df))
    ELSE Then(GeneLabel(d, species, Head(genes)), LAMBDA label :
         Then(MedianColumn(d, species, methylationType, Head(genes)), LAMBDA col :
              OwnColumns(d, species, methylationType, Tail(genes),
                         AddColumn(df, label, TRUE))))

\* The loop over the orthologs: content.py 1525-1533, 1540-1548
RECURSIVE OrthologColumns(_, _, _, _, _, _, _)
OrthologColumns(d, species, methylationType, genes, index, own, df) ==
    IF genes = <<>> THEN Pure(Return(df))
    ELSE LET geneID == Head(genes)
             rest(df2) == OrthologColumns(d, species, methylationType, Tail(genes),
                                          index + 1, own, df2)
         IN IF geneID = None \/ geneID = Str(EmptyStr)
            THEN IF index + 1 \notin DOMAIN own.cols THEN Pure(Raise("IndexError"))
                 ELSE rest(AddColumn(df, Str(<<"*N/A">> \o own.cols[index + 1].v), FALSE))
            ELSE Then(GeneLabel(d, species, geneID), LAMBDA label :
                 Then(MedianColumn(d, species, methylationType, geneID), LAMBDA col :
                      rest(AddColumn(df, label, TRUE))))

\* The two per-cluster median tables of get_mch_heatmap_two_species:
\* content.py 1515-1548
HeatmapTables(d, species, methylationType, query) ==
    LET mouse == IsMouse(species)
        own == IF mouse THEN "mouse_published" ELSE "human_hv1_published"
        other == IF mouse THEN "human_hv1_published" ELSE "mouse_published"
        Ortholog(geneID) ==
            Then(IF mouse THEN find_orthologs(d, geneID, Str(EmptyStr))
                 ELSE find_orthologs(d, Str(EmptyStr), geneID),
                 LAMBDA o : Pure(GetItem(o, IF mouse THEN "hsa_gID" ELSE "mmu_gID")))
    IN Then(MapCalls(LAMBDA g : convert_geneID_mmu_hsa(d, species, g), query),
         LAMBDA own_ids :
       Then(MapCalls(Ortholog, own_ids), LAMBDA other_ids :
       Then(OwnColumns(d, own, methylationType, own_ids, EmptyFrame), LAMBDA own_df :
       Then(OrthologColumns(d, other, methylationType, other_ids, 0, own_df, EmptyFrame),
         LAMBDA other_df :
           Pure(Return([hsa |-> IF mouse THEN other_df ELSE own_df,
                        mmu |-> IF mouse THEN own_df ELSE other_df]))))))

\* get_mch_heatmap_two_species: content.py 1483-1551 (and 1553-1781 on success)
get_mch_heatmap_two_species(d, species, methylationType, query) ==
    Enter("get_mch_heatmap_two_species",
      Then(HeatmapTables(d, species, methylationType, query), LAMBDA df :
           \* line 1551 returns the exception class instead of raising it
           IF FrameEmpty(df.hsa) \/ FrameEmpty(df.mmu)
           THEN Pure(Return(Class("FailToGraphException")))
           ELSE Pure(Return(Html))))

\* get_mch_box: content.py 1784-1905
get_mch_box(d, species, methylationType, gene, outliers, seed) ==
    Enter("get_mch_box",
      Then(convert_geneID_mmu_hsa(d, species, gene), LAMBDA g :
      Then(get_gene_methylation(d, species, methylationType, g, outliers), LAMBDA points :
        IF ~Truthy(points) THEN Pure(Raise("FailToGraphException"))
        ELSE LET clusters == {points.v[i].cluster_ordered : i \in DOMAIN points.v}
                 max_cluster == IF IsMouse(species) THEN 16 ELSE Max(clusters) + 1
             IN Then(generate_cluster_colors(max_cluster, seed), LAMBDA colors :
                Then(R(Return(clusters), <<"Box">>), LAMBDA traces :
                  IF IsMouse(species) /\ ~(\A i \in 17..22 : i \in traces)
                  THEN Pure(Raise("KeyError"))
                  ELSE Then(GeneLabel(d, species, g), LAMBDA geneName :
                            Pure(Return(Html))))))))

\* The x values of a Box trace: content.py 1938, 1944
BoxGroups(points) ==
    LET grouped == SelectSeq(points, LAMBDA i : "cluster_ortholog" \in DOMAIN i)
    IN [k \in DOMAIN grouped |-> grouped[k].cluster_ortholog]

\* The figure handed to plotly.offline.plot, with its traces
Figure(traces) == [t |-> "str", v |-> <<"html">>, data |-> traces]

\* get_mch_box_two_species: content.py 1908-2065
get_mch_box_two_species_LateCheck(d, methylationType, gene_mmu, gene_hsa, outliers) ==
    Enter("get_mch_box_two_species",
      Then(convert_geneID_mmu_hsa(d, "human_hv1_published", gene_hsa), LAMBDA hsa :
      Then(convert_geneID_mmu_hsa(d, "mouse_published", gene_mmu), LAMBDA mmu :
      Then(get_gene_methylation(d, "mouse_published", methylationType, mmu, outliers),
        LAMBDA points_mmu :
      Then(get_gene_methylation(d, "human_hv1_published", methylationType, hsa, outliers),
        LAMBDA points_hsa :
      Then(get_ortholog_cluster_order(d), LAMBDA cluster_order :
      Then(GeneLabel(d, "mouse_published", mmu), LAMBDA geneName :
        IF ~Truthy(points_mmu) \/ ~Truthy(points_hsa) \/ ~Truthy(cluster_order)
        THEN Pure(Raise("FailToGraphException"))
        ELSE Then(R(Return(<<BoxGroups(points_mmu.v), BoxGroups(points_hsa.v)>>),
                    <<"Box", "Box">>), LAMBDA traces_combined :
                  Pure(Return(Figure(traces_combined)))))))))))

get_mch_box_two_species(d, methylationType, gene_mmu, gene_hsa, outliers) ==
    Enter("get_mch_box_two_species",
      Then(convert_geneID_mmu_hsa(d, "human_hv1_published", gene_hsa), LAMBDA hsa :
      Then(convert_geneID_mmu_hsa(d, "mouse_published", gene_mmu), LAMBDA mmu :
      Then(get_gene_methylation(d, "mouse_published", methylationType, mmu, outliers),
        LAMBDA points_mmu :
      Then(get_gene_methylation(d, "human_hv1_published", methylationType, hsa, outliers),
        LAMBDA points_hsa :
      Then(get_ortholog_cluster_order(d), LAMBDA cluster_order :
        IF ~Truthy(points_mmu) \/ ~Truthy(points_hsa) \/ ~Truthy(cluster_order)
        THEN Pure(Raise("FailToGraphException"))
        ELSE Then(GeneLabel(d, "mouse_published", mmu), LAMBDA geneName :
             Then(R(Return(<<BoxGroups(points_mmu.v), BoxGroups(points_hsa.v)>>),
                    <<"Box", "Box">>), LAMBDA traces_combined :
                  Pure(Return(Figure(traces_combined)))))))))))

-----------------------------------------------------------------------------
(* The inputs the calls are run on *)

Floats == {Num(n) : n \in 0..MaxValue} \cup {NaN}
Bounds == {Num(n) : n \in 0..MaxValue}

Row(samp, v) == [samp |-> samp, normalized |-> v]
RowFiles ==
    {[g \in Genes |-> rs] : rs \in {<<>>, <<Row(2, 0), Row(1, 1), Row(1, 1)>>}}

PointLists == {<<>>, <<Point(1, 1)>>, <<Point(1, 2), Point(2, 1)>>}
PointFiles == {NoPoints} \cup {[st |-> "ok", pts |-> ps] : ps \in PointLists}

NameTables(species) ==
    IF species = "mouse_published"
    THEN {<<>>, <<NameRow(M1)>>, <<NameRow(M2), NameRow(M1)>>}
    ELSE {<<>>, <<NameRow(H1)>>}
NameDbs(species) == {[st |-> st, rows |-> rows] : st \in DbStatus, rows \in NameTables(species)}

OrthDbs == {[st |-> st, rows |-> rows] : st \in DbStatus,
                                         rows \in {<<>>, <<OrthRow(M1, H1)>>}}

FileMaps(species) ==
    IF species = "mouse_published"
    THEN {[g \in Genes |-> IF g = M1 THEN a ELSE IF g = M2 THEN b ELSE "none"] :
            a \in {"none", "own", "other"}, b \in {"none", "own"}}
    ELSE {[g \in Genes |-> IF g = H1 THEN a ELSE "none"] : a \in {"none", "own"}}

OrderFiles == {[st |-> "absent", rows |-> <<>>], [st |-> "ok", rows |-> <<>>],
               [st |-> "ok", rows |-> <<[mouse |-> 1, human |-> 2], [mouse |-> 1, human |-> 1]>>]}

\* Data directories in which only the files of one species vary; a database
\* is readable or its query fails
Queryable(dbs) == {db \in dbs : db.st # "unopenable"}

SpeciesData(species) ==
    {[EmptyData EXCEPT !.orth = o] : o \in Queryable(OrthDbs)}
    \cup {[EmptyData EXCEPT !.dirs = {species}, !.files[species] = f,
                            !.names[species] = n, !.tsne[species] = t,
                            !.rows = r, !.orth = o] :
            f \in FileMaps(species), n \in Queryable(NameDbs(species)), t \in PointFiles,
            r \in RowFiles, o \in Queryable(OrthDbs)}

\* Data directories in which the files of both species vary
TwoSpeciesData ==
    {[EmptyData EXCEPT !.dirs = dirs,
                       !.files = [s \in Species |-> [g \in Genes |->
                                    IF g = M1 /\ s = "mouse_published" /\ s \in dirs THEN fm
                                    ELSE IF g = H1 /\ s = "human_hv1_published" /\ s \in dirs
                                         THEN fh ELSE "none"]],
                       !.names = [s \in Species |->
                                    [st |-> "ok",
                                     rows |-> IF ~named THEN <<>>
                                              ELSE IF s = "mouse_published"
                                                   THEN <<NameRow(M2), NameRow(M1)>>
                                                   ELSE <<NameRow(H1)>>]],
                       !.tsne = [s \in Species |-> t],
                       !.rows = [g \in Genes |-> <<Row(2, 0), Row(1, 1), Row(1, 1)>>],
                       !.orth = o, !.order = ord] :
        dirs \in {Species, {"mouse_published"}}, fm \in {"none", "own"},
        fh \in {"none", "own"}, named \in BOOLEAN,
        t \in {NoPoints, [st |-> "ok", pts |-> <<Point(1, 2), Point(2, 1)>>]},
        o \in Queryable(OrthDbs), ord \in OrderFiles}

GeneArgs == {Str(M1), Str(M2), Str(H1)}
Queries == {<<>>, <<Str(M1)>>, <<Str(H1)>>, <<Str(M1), Str(M2)>>, <<Str(M2), Str(M2)>>}

-----------------------------------------------------------------------------
(* The calls *)

NoCall == [op |-> "none"]
Idle == [pc |-> "idle"]

Init ==
    /\ call = NoCall
    /\ trace_colors = Undefined
    /\ rcc = Idle
    /\ gcp = Idle

Finish(op, args, d, r) ==
    [op |-> op, args |-> args, data |-> d, out |-> r.out, log |-> r.log]

CallSetColor ==
    \E this \in Floats, start \in Bounds, end \in Bounds :
        /\ call = NoCall
        /\ start.v <= end.v
        /\ call' = Finish("set_color_by_percentile",
                          [this |-> this, start |-> start, end |-> end, again |-> FALSE],
                          EmptyData, Pure(set_color_by_percentile(this, start, end)))
        /\ UNCHANGED <<trace_colors, rcc, gcp>>

\* The value returned is passed through a second time, with the same bounds
CallSetColorAgain ==
    /\ call.op = "set_color_by_percentile"
    /\ ~call.args.again
    /\ call.out.kind = "return"
    /\ call' = Finish("set_color_by_percentile",
                      [this |-> call.out.val, start |-> call.args.start,
                       end |-> call.args.end, again |-> TRUE],
                      EmptyData,
                      Pure(set_color_by_percentile(call.out.val, call.args.start,
                                                   call.args.end)))
    /\ UNCHANGED <<trace_colors, rcc, gcp>>

CallFindOrthologs ==
    \E o \in OrthDbs, mmu_gid \in {Str(EmptyStr), None, Str(M1), Str(M2)},
       hsa_gid \in {Str(EmptyStr), Str(H1)} :
        LET d == [EmptyData EXCEPT !.orth = o]
        IN /\ call = NoCall
           /\ call' = Finish("find_orthologs", [mmu_gid |-> mmu_gid, hsa_gid |-> hsa_gid],
                             d, find_orthologs(d, mmu_gid, hsa_gid))
           /\ UNCHANGED <<trace_colors, rcc, gcp>>

CallGeneIdToName ==
    \E species \in Species, dirs \in SUBSET Species,
       query \in GeneArgs \cup {None, Str(EmptyStr), Str(<<"ENSMUSG">>)} :
      \E n \in NameDbs(species) :
        LET d == [EmptyData EXCEPT !.dirs = dirs, !.names[species] = n]
        IN /\ call = NoCall
           /\ call' = Finish("gene_id_to_name", [species |-> species, query |-> query],
                             d, gene_id_to_name(d, species, query))
           /\ UNCHANGED <<trace_colors, rcc, gcp>>

CallGetMethylationScatter ==
    \E species \in Species, query \in Queries :
      \E d \in SpeciesData(species) :
        /\ call = NoCall
        /\ call' = Finish("get_methylation_scatter", [species |-> species, query |-> query],
                          d, get_methylation_scatter(d, species, "mch", query))
        /\ UNCHANGED <<trace_colors, rcc, gcp>>

CallGetMchHeatmapTwoSpecies ==
    \E species \in Species, query \in Queries :
      \E d \in {x \in TwoSpeciesData : x.order = EmptyData.order} :
        /\ call = NoCall
        /\ call' = Finish("get_mch_heatmap_two_species",
                          [species |-> species, query |-> query],
                          d, get_mch_heatmap_two_species(d, species, "mch", query))
        /\ UNCHANGED <<trace_colors, rcc, gcp>>

CallGetMchBox ==
    \E species \in Species, gene \in {Str(M1), Str(H1)}, outliers \in BOOLEAN :
      \E d \in SpeciesData(species) :
        /\ call = NoCall
        /\ call' = Finish("get_mch_box",
                          [species |-> species, gene |-> gene, outliers |-> outliers],
                          d, get_mch_box(d, species, "mch", gene, outliers, 1))
        /\ UNCHANGED <<trace_colors, rcc, gcp>>

CallGetMchBoxTwoSpecies ==
    \E gene_mmu \in {Str(M1), Str(H1)}, gene_hsa \in {Str(M1), Str(H1)},
       outliers \in BOOLEAN :
      \E d \in TwoSpeciesData :
        /\ call = NoCall
        /\ call' = Finish("get_mch_box_two_species",
                          [gene_mmu |-> gene_mmu, gene_hsa |-> gene_hsa,
                           outliers |-> outliers],
                          d, get_mch_box_two_species(d, "mch", gene_mmu, gene_hsa, outliers))
        /\ UNCHANGED <<trace_colors, rcc, gcp>>

\* The route sends the response (or the error page) and the worker is free again
Respond ==
    /\ call # NoCall
    /\ call' = NoCall
    /\ UNCHANGED <<trace_colors, rcc, gcp>>

Next ==
    \/ CallSetColor
    \/ CallSetColorAgain
    \/ CallFindOrthologs
    \/ CallGeneIdToName
    \/ CallGetMethylationScatter
    \/ CallGetMchHeatmapTwoSpecies
    \/ CallGetMchBox
    \/ CallGetMchBoxTwoSpecies
    \/ Respond

Spec == Init /\ [][Next]_vars

-----------------------------------------------------------------------------
(* get_cluster_plot served alone: it leaves a new value in trace_colors *)

\* The tSNE files: up to MaxPoints rows, with or without a biosample column
PlotPointLists ==
    UNION {{[i \in 1..n |-> Point(i, cs[i])] : cs \in [1..n -> 1..MaxCluster]}
           \cup {[i \in 1..n |-> [samp |-> i, cluster_ordered |-> cb[i][1],
                                  biosample |-> cb[i][2]]] :
                   cb \in [1..n -> (1..MaxCluster) \X (1..2)]}
           : n \in 0..MaxPoints}

PlotFiles == {[st |-> "ok", pts |-> ps] : ps \in PlotPointLists}

PlotData(species) ==
    {EmptyData}
    \cup {[EmptyData EXCEPT !.dirs = {species}, !.tsne[species] = t] :
            t \in PlotFiles \cup {NoPoints, [st |-> "ioerror", pts |-> <<>>]}}
    \cup {[EmptyData EXCEPT !.dirs = {species}, !.tsne3d[species] = t] :
            t \in PlotFiles \cup {[st |-> "ioerror", pts |-> <<>>]}}

Groupings == {"cluster_ordered", "biosample"}

CallGetClusterPlot ==
    \E species \in Species, grouping \in Groupings :
      \E d \in PlotData(species) :
        LET r == get_cluster_plot(d, species, grouping, 1)
        IN /\ call = NoCall
           /\ call' = Finish("get_cluster_plot", [species |-> species, grouping |-> grouping],
                             d, r)
           /\ trace_colors' = r.tc
           /\ UNCHANGED <<rcc, gcp>>

NextPlot ==
    \/ CallGetClusterPlot
    \/ Respond

SpecPlot == Init /\ [][NextPlot]_vars

-----------------------------------------------------------------------------
(* randomize_cluster_colors and get_cluster_plot served by two threads.    *)
(* Each is split at its accesses to the global trace_colors.               *)

\* One execution of the body of randomize_cluster_colors, lines 190-197, with
\* trace_colors as it is found: the dict returned, the exception raised, or
\* "retry" when NameError is caught
RandomizeAttempt_CatchAll(tc, num, seed) ==
    LET colors == generate_cluster_colors(num, seed)
    IN IF colors.out.kind = "raise" \/ tc = Undefined THEN [kind |-> "retry"]
       ELSE Return(Dict(Update(
                [k \in {<<"colors">>, <<"num_colors">>} |->
                    IF k = <<"colors">> THEN colors.out.val ELSE Num(num)],
                tc.v)))

RandomizeAttempt(tc, num, seed) ==
    LET colors == generate_cluster_colors(num, seed)
    IN IF colors.out.kind = "raise" THEN colors.out
       ELSE IF tc = Undefined THEN [kind |-> "retry"]
       ELSE Return(Dict(Update(
                [k \in {<<"colors">>, <<"num_colors">>} |->
                    IF k = <<"colors">> THEN colors.out.val ELSE Num(num)],
                tc.v)))

\* The request arrives: content.py 177
RccStart ==
    \E num \in 2..MaxNum :
        /\ rcc = Idle
        /\ rcc' = [pc |-> "try", num |-> num, depth |-> 1]
        /\ UNCHANGED <<call, trace_colors, gcp>>

\* Lines 190-196 in the innermost frame.  The dict is returned to the caller
\* only by the outermost frame: line 198 drops the value of the recursive
\* call, so every outer frame returns None.
RccTry ==
    \E seed \in Seeds :
        LET a == RandomizeAttempt(trace_colors, rcc.num, seed)
        IN /\ rcc # Idle /\ rcc.pc = "try"
           /\ rcc' = IF a.kind = "retry"
                     THEN [pc |-> "sleep", num |-> rcc.num, depth |-> rcc.depth,
                           seen |-> trace_colors]
                     ELSE [pc |-> "done", num |-> rcc.num, depth |-> rcc.depth,
                           seen |-> trace_colors, seed |-> seed, inner |-> a,
                           out |-> IF a.kind = "return" /\ rcc.depth > 1
                                   THEN Return(None) ELSE a]
           /\ UNCHANGED <<call, trace_colors, gcp>>

\* Lines 197-198: after time.sleep(2) the function calls itself
RccWake ==
    /\ rcc # Idle /\ rcc.pc = "sleep"
    /\ rcc.depth < MaxDepth
    /\ rcc' = [pc |-> "try", num |-> rcc.num, depth |-> rcc.depth + 1]
    /\ UNCHANGED <<call, trace_colors, gcp>>

\* Line 198 in the deepest frame the interpreter allows: the call raises
\* RecursionError, which no frame catches (line 196 catches NameError only)
RccOverflow ==
    /\ rcc # Idle /\ rcc.pc = "sleep"
    /\ rcc.depth = MaxDepth
    /\ rcc' = [pc |-> "done", num |-> rcc.num, depth |-> rcc.depth,
               seen |-> rcc.seen, seed |-> 1, inner |-> Raise("RecursionError"),
               out |-> Raise("RecursionError")]
    /\ UNCHANGED <<call, trace_colors, gcp>>

RccRespond ==
    /\ rcc # Idle /\ rcc.pc = "done"
    /\ rcc' = Idle
    /\ UNCHANGED <<call, trace_colors, gcp>>

\* The tSNE files of the species whose plot is requested meanwhile
ThreadPlotData ==
    {[EmptyData EXCEPT !.dirs = {"human_hv1_published"},
                       !.tsne["human_hv1_published"] = [st |-> "ok", pts |-> ps]] :
        ps \in {x \in PlotPointLists :
                  \A i \in DOMAIN x : /\ "biosample" \in DOMAIN x[i]
                                       /\ x[i].cluster_ordered = MaxCluster}}

GcpStart ==
    \E grouping \in Groupings, d \in ThreadPlotData :
        /\ gcp = Idle
        /\ gcp' = [pc |-> "reset", species |-> "human_hv1_published",
                   grouping |-> grouping, data |-> d]
        /\ UNCHANGED <<call, trace_colors, rcc>>

\* Lines 759-760
GcpReset ==
    /\ gcp # Idle /\ gcp.pc = "reset"
    /\ trace_colors' = EmptyDict
    /\ gcp' = [gcp EXCEPT !.pc = "load"]
    /\ UNCHANGED <<call, rcc>>

\* Lines 762-1045: the traces are built, or the call fails
GcpLoad ==
    /\ gcp # Idle /\ gcp.pc = "load"
    /\ LET r == PlotTraces(gcp.data, gcp.species, gcp.grouping, 1)
       IN gcp' = IF r.out.kind = "raise"
                 THEN [pc |-> "done", species |-> gcp.species, grouping |-> gcp.grouping,
                       data |-> gcp.data, out |-> r.out]
                 ELSE [pc |-> "fill", species |-> gcp.species, grouping |-> gcp.grouping,
                       data |-> gcp.data, traces |-> r.out.val, i |-> 0]
    /\ UNCHANGED <<call, trace_colors, rcc>>

\* One round of the loop of lines 1046-1051
GcpFill ==
    /\ gcp # Idle /\ gcp.pc = "fill"
    /\ gcp.i < Len(gcp.traces)
    /\ trace_colors' = FillOne(trace_colors, gcp.traces, gcp.i)
    /\ gcp' = [gcp EXCEPT !.i = gcp.i + 1]
    /\ UNCHANGED <<call, rcc>>

\* Lines 1053-1059
GcpFinish ==
    /\ gcp # Idle /\ gcp.pc = "fill"
    /\ gcp.i = Len(gcp.traces)
    /\ gcp' = [pc |-> "done", species |-> gcp.species, grouping |-> gcp.grouping,
               data |-> gcp.data, out |-> PlotFinish(gcp.species, gcp.traces)]
    /\ UNCHANGED <<call, trace_colors, rcc>>

GcpRespond ==
    /\ gcp # Idle /\ gcp.pc = "done"
    /\ gcp' = Idle
    /\ UNCHANGED <<call, trace_colors, rcc>>

NextColors ==
    \/ RccStart
    \/ RccTry
    \/ RccWake
    \/ RccOverflow
    \/ RccRespond
    \/ GcpStart
    \/ GcpReset
    \/ GcpLoad
    \/ GcpFill
    \/ GcpFinish
    \/ GcpRespond

SpecColors == Init /\ [][NextColors]_vars

-----------------------------------------------------------------------------
(* The same two handlers on a server that handles one request at a time:   *)
(* a request is taken only when no other is in flight.  A request taken is *)
(* run to its end, so every step of a handler is weakly fair; requests     *)
(* need not arrive.                                                        *)

ServeRandomize == RccStart /\ gcp = Idle

ServeClusterPlot == GcpStart /\ rcc = Idle

NextServe ==
    \/ ServeRandomize
    \/ RccTry
    \/ RccWake
    \/ RccOverflow
    \/ RccRespond
    \/ ServeClusterPlot
    \/ GcpReset
    \/ GcpLoad
    \/ GcpFill
    \/ GcpFinish
    \/ GcpRespond

SpecServe ==
    /\ Init /\ [][NextServe]_vars
    /\ WF_vars(RccTry) /\ WF_vars(RccWake) /\ WF_vars(RccOverflow) /\ WF_vars(RccRespond)
    /\ WF_vars(GcpReset) /\ WF_vars(GcpLoad) /\ WF_vars(GcpFill)
    /\ WF_vars(GcpFinish) /\ WF_vars(GcpRespond)

-----------------------------------------------------------------------------
(* search_gene_names: content.py 394-424.  Gene names and queries are      *)
(* sequences of characters; SQLite's LIKE compares ASCII letters without   *)
(* regard to case and reads % and _ in the pattern as wildcards.           *)

Lower(c) == IF c = "G" THEN "g" ELSE c

RECURSIVE Like(_, _)
Like(pattern, s) ==
    IF pattern = <<>> THEN s = <<>>
    ELSE IF Head(pattern) = "%"
         THEN \E k \in 0..Len(s) : Like(Tail(pattern), SubSeq(s, k + 1, Len(s)))
         ELSE /\ s # <<>>
              /\ Head(pattern) = "_" \/ Lower(Head(pattern)) = Lower(Head(s))
              /\ Like(Tail(pattern), Tail(s))

\* [...][:50]
SearchLimit == 50
Take(rows, n) == IF Len(rows) <= n THEN rows ELSE SubSeq(rows, 1, n)

search_gene_names_NoLimit(d, species, query) ==
    Enter("search_gene_names",
        IF ~species_exists(d, species) THEN Pure(Return(List(<<>>)))
        ELSE IF d.names[species].st = "error" THEN Pure(Return(List(<<>>)))
        ELSE Pure(Return(List(SelectSeq(d.names[species].rows,
                LAMBDA row : Like(query.v \o <<"%">>, row.v.geneName.v))))))

search_gene_names(d, species, query) ==
    Enter("search_gene_names",
        IF ~species_exists(d, species) THEN Pure(Return(List(<<>>)))
        ELSE IF d.names[species].st = "unopenable"
             THEN R(Raise("sqlite3.OperationalError"), <<"sqlite3.connect">>)
        ELSE IF query.t # "str" THEN R(Raise("TypeError"), <<"sqlite3.connect">>)
        ELSE IF d.names[species].st = "error"
             THEN R(Return(List(<<>>)), <<"sqlite3.connect">>)
        ELSE LET query_results ==
                     SelectSeq(d.names[species].rows,
                               LAMBDA row : Like(query.v \o <<"%">>, row.v.geneName.v))
             IN R(Return(List(Take(query_results, SearchLimit))), <<"sqlite3.connect">>))

\* The gene_names tables searched: short ones, and two around the limit
SearchRow(name) == Dict([geneID |-> Str(M1), geneName |-> Str(name)])
SearchNames == {<<"G", "a">>, <<"a", "G">>, <<"G">>}
SearchTables ==
    UNION {[1..n -> {SearchRow(name) : name \in SearchNames}] : n \in 0..2}
    \cup {[i \in 1..n |-> SearchRow(IF i % 3 = 0 THEN <<"a", "G">> ELSE <<"G", "a">>)] :
            n \in {SearchLimit, SearchLimit + 1}}
SearchQueries ==
    UNION {[1..n -> {"g", "G", "a", "_", "%"}] : n \in 0..MaxQuery}

CallSearchGeneNames ==
    \E species \in {"mouse_published"}, dirs \in {{}, {"mouse_published"}},
       query \in SearchQueries, st \in DbStatus, rows \in SearchTables :
        LET d == [EmptyData EXCEPT !.dirs = dirs,
                                   !.names[species] = [st |-> st, rows |-> rows]]
        IN /\ call = NoCall
           /\ call' = Finish("search_gene_names",
                             [species |-> species, query |-> Str(query)],
                             d, search_gene_names(d, species, Str(query)))
           /\ UNCHANGED <<trace_colors, rcc, gcp>>

-----------------------------------------------------------------------------
(* build_hover_text: content.py 122-140.  Strings are sequences of         *)
(* characters and labels is the sequence of the dict's items, in order.    *)

BR == <<"<", "b", "r", ">">>

\* str.strip(chars): drops from both ends every character that is in chars
RECURSIVE LStrip(_, _)
LStrip(s, chars) ==
    IF s # <<>> /\ Head(s) \in chars THEN LStrip(Tail(s), chars) ELSE s

RECURSIVE RStrip(_, _)
RStrip(s, chars) ==
    IF s # <<>> /\ s[Len(s)] \in chars THEN RStrip(SubSeq(s, 1, Len(s) - 1), chars) ELSE s

Strip(s, chars) == RStrip(LStrip(s, chars), chars)

RECURSIVE HoverLines(_)
HoverLines(labels) ==
    IF labels = <<>> THEN <<>>
    ELSE Head(labels).k \o <<":", " ">> \o Head(labels).v \o BR \o HoverLines(Tail(labels))

build_hover_text(labels) ==
    Return(Str(Strip(HoverLines(labels), {BR[i] : i \in DOMAIN BR})))

\* Label dicts of up to two items
LabelKeys == {<<"T">>, <<"r", "T">>}
LabelValues == {<<>>, <<"V">>, <<"V", "b">>, <<"1", ">">>}
Labels ==
    UNION {[1..n -> {[k |-> k, v |-> v] : k \in LabelKeys, v \in LabelValues}] : n \in 0..2}

CallBuildHoverText ==
    \E labels \in Labels :
        /\ call = NoCall
        /\ \A i, j \in DOMAIN labels : i # j => labels[i].k # labels[j].k
        /\ call' = Finish("build_hover_text", [labels |-> labels], EmptyData,
                          Pure(build_hover_text(labels)))
        /\ UNCHANGED <<trace_colors, rcc, gcp>>

-----------------------------------------------------------------------------
(* The colour bar of get_mch_heatmap and get_mch_heatmap_two_species:      *)
(* content.py 1340-1347, 1592-1598.  The table of per-cluster medians is   *)
(* taken as given.  Percentiles are whole percents and a quantile is kept  *)
(* as 100 times its value, so that the linear interpolation is exact.      *)

RECURSIVE InsertSorted(_, _)
InsertSorted(x, sorted) ==
    IF sorted = <<>> THEN <<x>>
    ELSE IF x <= Head(sorted) THEN <<x>> \o sorted
         ELSE <<Head(sorted)>> \o InsertSorted(x, Tail(sorted))

RECURSIVE Sorted(_)
Sorted(xs) == IF xs = <<>> THEN <<>> ELSE InsertSorted(Head(xs), Sorted(Tail(xs)))

\* DataFrame.quantile(q), interpolation='linear'
Quantile(xs, percent) ==
    LET v == Sorted(xs)
        pos == percent * (Len(v) - 1)
        lo == (pos \div 100) + 1
        frac == pos % 100
    IN IF frac = 0 THEN 100 * v[lo]
       ELSE 100 * v[lo] + frac * (v[lo + 1] - v[lo])

\* start, end and the first and last of colorbar_tickval
HeatmapColorbar(flat_mch, ptile_start, ptile_end) ==
    LET start == Quantile(flat_mch, 5)
        end == Quantile(flat_mch, 95)
    IN [first |-> start, last |-> end]

\* The medians plotted, and the percentiles a request may carry
MedianLists == UNION {[1..n -> 0..MaxValue] : n \in 2..(MaxPoints + 1)}
Percentiles == {0, 5, 25, 75, 95, 100}

CallHeatmapColorbar ==
    \E fn \in {"get_mch_heatmap", "get_mch_heatmap_two_species"},
       flat_mch \in MedianLists, ptile_start \in Percentiles, ptile_end \in Percentiles :
        /\ call = NoCall
        /\ ptile_start < ptile_end
        /\ Quantile(flat_mch, 5) # Quantile(flat_mch, 95)
        /\ call' = Finish("colorbar", [fn |-> fn, flat_mch |-> flat_mch,
                                       ptile_start |-> ptile_start,
                                       ptile_end |-> ptile_end],
                          EmptyData,
                          R(Return(HeatmapColorbar(flat_mch, ptile_start, ptile_end)),
                            <<fn, "Heatmap">>))
        /\ UNCHANGED <<trace_colors, rcc, gcp>>

-----------------------------------------------------------------------------
(* all_gene_modules: content.py 266-288 *)

\* itertools.groupby(df, key): one key per run of consecutive equal keys
RECURSIVE GroupbyKeys(_)
GroupbyKeys(keys) ==
    IF keys = <<>> THEN <<>>
    ELSE IF Len(keys) > 1 /\ keys[2] = keys[1] THEN GroupbyKeys(Tail(keys))
         ELSE <<Head(keys)>> \o GroupbyKeys(Tail(keys))

all_gene_modules(d) ==
    Enter("all_gene_modules",
        IF d.modules.st # "ok" THEN Pure(Return(List(<<>>)))
        ELSE LET keys == GroupbyKeys(d.modules.rows)
             IN Pure(Return(List([i \in DOMAIN keys |-> Dict([module |-> keys[i]])]))))

\* gene_modules.tsv: the module column of its rows
ModuleFiles ==
    {[st |-> "absent", rows |-> <<>>]}
    \cup {[st |-> "ok", rows |-> rows] :
            rows \in UNION {[1..n -> {"A", "B"}] : n \in 0..(MaxPoints + 1)}}

CallAllGeneModules ==
    \E f \in ModuleFiles :
        LET d == [EmptyData EXCEPT !.modules = f]
        IN /\ call = NoCall
           /\ call' = Finish("all_gene_modules", <<>>, d, all_gene_modules(d))
           /\ UNCHANGED <<trace_colors, rcc, gcp>>

-----------------------------------------------------------------------------
(* get_corr_genes: content.py 484-516 *)

\* A row of the corr_genes table
CorrRow(g1, g2, c) == [Gene1 |-> Str(g1), Gene2 |-> Str(g2), Correlation |-> c]

\* ORDER BY Correlation DESC
\* the place of row i counts the rows before it: those of a larger correlation,
\* and those of the same correlation that the table holds earlier
OrderByCorrelation(rows) ==
    LET Before(i) == {k \in DOMAIN rows :
                        \/ rows[k].Correlation > rows[i].Correlation
                        \/ rows[k].Correlation = rows[i].Correlation /\ k < i}
    IN [place \in DOMAIN rows |->
           rows[CHOOSE i \in DOMAIN rows : Cardinality(Before(i)) = place - 1]]

\* LIMIT 50
CorrLimit == 50

\* The loop over the rows fetched: content.py 510-515.  It stops at the first
\* row whose gene_id_to_name raises or returns no dict (item assignment on a
\* list or on None raises TypeError).
RECURSIVE Concat(_)
Concat(logs) ==
    IF logs = <<>> THEN <<>>
    ELSE IF Len(logs) = 1 THEN logs[1]
    ELSE LET half == Len(logs) \div 2
         IN Concat(SubSeq(logs, 1, half)) \o Concat(SubSeq(logs, half + 1, Len(logs)))

CorrTable(d, species, items) ==
    LET geneInfo(i) == gene_id_to_name(d, species, items[i].Gene2)
        Fails(i) == geneInfo(i).out.kind = "raise" \/ geneInfo(i).out.val.t # "dict"
        failing == {i \in DOMAIN items : Fails(i)}
        last == IF failing = {} THEN Len(items)
                ELSE CHOOSE i \in failing : \A k \in failing : i <= k
        log == Concat([i \in 1..last |-> geneInfo(i).log])
    IN IF failing # {}
       THEN R(IF geneInfo(last).out.kind = "raise" THEN geneInfo(last).out
              ELSE Raise("TypeError"), log)
       ELSE R(Return([rank \in 1..last |->
                        Dict([Rank |-> rank, Corr |-> items[rank].Correlation]
                             @@ geneInfo(rank).out.val.v)]), log)

get_corr_genes(d, species, query) ==
    Enter("get_corr_genes",
        IF d.corr.st = "unopenable"
        THEN R(Raise("sqlite3.OperationalError"), <<"sqlite3.connect">>)
        ELSE IF d.corr.st = "error" THEN R(Return(Num(1)), <<"sqlite3.connect">>)
        ELSE LET matching == SelectSeq(d.corr.rows,
                                       LAMBDA row : IsPrefix(query.v, row.Gene1.v))
                 query_results == Take(OrderByCorrelation(matching), CorrLimit)
             IN Then(R(Return(None), <<"sqlite3.connect">>), LAMBDA conn :
                Then(CorrTable(d, species, query_results), LAMBDA table_data :
                     Pure(Return(List(table_data))))))

\* The corr_genes tables queried: short ones, and one above the limit
CorrTables ==
    UNION {[1..n -> {CorrRow(M1, g2, c) : g2 \in {M1, M2}, c \in 0..MaxValue}] : n \in 0..2}
    \cup {[i \in 1..(CorrLimit + 1) |-> CorrRow(M1, M2, i % (MaxValue + 1))]}

CorrData(species) ==
    {[EmptyData EXCEPT !.dirs = {species},
                       !.names[species] = [st |-> nst, rows |-> names],
                       !.corr = [st |-> st, rows |-> rows]] :
        nst \in {"ok", "error"}, names \in {<<>>, <<NameRow(M2), NameRow(M1)>>},
        st \in DbStatus, rows \in CorrTables}

CallGetCorrGenes ==
    \E d \in CorrData("mouse_published") :
        /\ call = NoCall
        /\ call' = Finish("get_corr_genes",
                          [species |-> "mouse_published", query |-> Str(M1)],
                          d, get_corr_genes(d, "mouse_published", Str(M1)))
        /\ UNCHANGED <<trace_colors, rcc, gcp>>

-----------------------------------------------------------------------------
(* generate_cluster_colors called for every number of colours its          *)
(* docstring allows: content.py 147                                        *)

MaxColors == 35

CallGenerateClusterColors ==
    \E num \in 1..MaxColors, seed \in Seeds :
        /\ call = NoCall
        /\ call' = Finish("generate_cluster_colors", [num |-> num, seed |-> seed],
                          EmptyData, generate_cluster_colors(num, seed))
        /\ UNCHANGED <<trace_colors, rcc, gcp>>

-----------------------------------------------------------------------------
(* The lookup helpers of content.py, each called on its own *)

ConvertSpecies == {"mouse_published", "mmu", "human_hv1_published", "hsa"}

CallConvertGeneID ==
    \E species \in ConvertSpecies, geneID \in GeneArgs, o \in OrthDbs :
        LET d == [EmptyData EXCEPT !.orth = o]
        IN /\ call = NoCall
           /\ call' = Finish("convert_geneID_mmu_hsa",
                             [species |-> species, geneID |-> geneID,
                              first |-> geneID, again |-> FALSE],
                             d, convert_geneID_mmu_hsa(d, species, geneID))
           /\ UNCHANGED <<trace_colors, rcc, gcp>>

\* The ID returned is converted a second time for the same species
CallConvertGeneIDAgain ==
    /\ call.op = "convert_geneID_mmu_hsa"
    /\ ~call.args.again
    /\ call.out.kind = "return"
    /\ call' = Finish("convert_geneID_mmu_hsa",
                      [species |-> call.args.species, geneID |-> call.out.val,
                       first |-> call.args.geneID, again |-> TRUE],
                      call.data,
                      convert_geneID_mmu_hsa(call.data, call.args.species, call.out.val))
    /\ UNCHANGED <<trace_colors, rcc, gcp>>

\* The tSNE and gene files get_gene_methylation is run on
GeneRowLists == {<<>>, <<Row(1, 1)>>, <<Row(2, 0), Row(1, 1), Row(1, 1)>>}
ClusterPointLists ==
    UNION {{[i \in 1..n |-> Point(i, cs[i])] : cs \in [1..n -> 1..MaxCluster]} :
           n \in 0..MaxPoints}
GeneData(species, gene) ==
    {[EmptyData EXCEPT !.dirs = dirs, !.files[species][gene] = f,
                       !.tsne[species] = t, !.rows[gene] = rs] :
        dirs \in {{}, {species}}, f \in {"none", "own"},
        t \in {NoPoints} \cup {[st |-> "ok", pts |-> ps] : ps \in ClusterPointLists},
        rs \in GeneRowLists}

CallGetGeneMethylation ==
    \E species \in Species, gene \in {M1, H1}, outliers \in BOOLEAN :
      \E d \in GeneData(species, gene) :
        /\ call = NoCall
        /\ call' = Finish("get_gene_methylation",
                          [species |-> species, gene |-> Str(gene), outliers |-> outliers],
                          d, get_gene_methylation(d, species, "mch", Str(gene), outliers))
        /\ UNCHANGED <<trace_colors, rcc, gcp>>

\* The data directories of a get_mult_gene_methylation call: each of the two
\* mouse genes has no file, a file in the dataset directory named after the
\* species, or a file in another dataset directory only; the two files hold
\* different rows
MultGeneRows ==
    {[g \in Genes |-> IF g = M1 THEN <<Row(1, 0), Row(2, MaxValue)>>
                      ELSE IF g = M2 THEN r2 ELSE <<>>] :
        r2 \in {<<Row(1, MaxValue)>>, <<Row(2, 0), Row(1, 1)>>}}

MultGeneData(species) ==
    {[EmptyData EXCEPT !.dirs = dirs,
                       !.files[species] = [g \in Genes |-> IF g = M1 THEN f1
                                                           ELSE IF g = M2 THEN f2
                                                           ELSE "none"],
                       !.tsne[species] = [st |-> "ok", pts |-> ps],
                       !.rows = rs] :
        dirs \in {{}, {species}}, f1 \in {"none", "own", "other"},
        f2 \in {"none", "own", "other"},
        ps \in {<<Point(1, 1)>>, <<Point(1, 2), Point(2, 1)>>}, rs \in MultGeneRows}

MultGeneQueries ==
    {<<>>, <<Str(M1)>>, <<Str(M2)>>, <<Str(M1), Str(M2)>>, <<Str(M2), Str(M1)>>}

CallGetMultGeneMethylation ==
    \E species \in Species, genes \in MultGeneQueries :
      \E d \in MultGeneData(species) :
        /\ call = NoCall
        /\ call' = Finish("get_mult_gene_methylation",
                          [species |-> species, genes |-> genes],
                          d, get_mult_gene_methylation(d, species, "mch", genes))
        /\ UNCHANGED <<trace_colors, rcc, gcp>>

NextLookup ==
    \/ CallGetMultGeneMethylation
    \/ CallConvertGeneID
    \/ CallConvertGeneIDAgain
    \/ CallGetGeneMethylation
    \/ CallSearchGeneNames
    \/ CallBuildHoverText
    \/ CallHeatmapColorbar
    \/ CallAllGeneModules
    \/ CallGetCorrGenes
    \/ CallGenerateClusterColors
    \/ Respond

SpecLookup == Init /\ [][NextLookup]_vars

-----------------------------------------------------------------------------
(* The ortholog cluster order and the two-species box plot drawn from it *)

\* mm_hs_homologous_cluster.txt: rows of (Mouse Cluster, Human Cluster)
OrderRows ==
    UNION {[1..n -> [mouse : 1..MaxCluster, human : 1..MaxCluster]] : n \in 0..MaxPoints}

CallGetOrthologClusterOrder ==
    \E st \in {"absent", "ok"}, rows \in OrderRows :
        LET d == [EmptyData EXCEPT !.order = [st |-> st, rows |-> rows]]
        IN /\ call = NoCall
           /\ st = "absent" => rows = <<>>
           /\ call' = Finish("get_ortholog_cluster_order", <<>>, d,
                             get_ortholog_cluster_order(d))
           /\ UNCHANGED <<trace_colors, rcc, gcp>>

\* A row of tsne_points_ordered.tsv with its ortholog cluster
OrthologPoint(samp, c, g) == [samp |-> samp, cluster_ordered |-> c, cluster_ortholog |-> g]

\* Two cells per species in clusters 1 and 2; the clusters of each species
\* carry the ortholog labels in one of two ways
GroupClusters == {1, 2}
OrthologLabels ==
    {[c \in GroupClusters |-> IF c = 1 THEN "X" ELSE "Y"],
     [c \in GroupClusters |-> IF c = 1 THEN "Y" ELSE "X"]}
OrthologPointLists ==
    {<<OrthologPoint(1, c1, lab[c1]), OrthologPoint(2, c2, lab[c2])>> :
        c1 \in GroupClusters, c2 \in GroupClusters, lab \in OrthologLabels}
GroupOrderRows == [1..2 -> [mouse : GroupClusters, human : GroupClusters]]

GroupedData ==
    {[EmptyData EXCEPT !.dirs = Species,
                       !.files = [s \in Species |-> [g \in Genes |-> "own"]],
                       !.names = [s \in Species |->
                                    [st |-> "ok",
                                     rows |-> IF s = "mouse_published"
                                              THEN <<NameRow(M1)>> ELSE <<NameRow(H1)>>]],
                       !.tsne = [s \in Species |->
                                    [st |-> "ok",
                                     pts |-> IF s = "mouse_published" THEN pm ELSE ph]],
                       !.rows = [g \in Genes |-> <<Row(2, 0), Row(1, 1)>>],
                       !.order = [st |-> "ok", rows |-> ord]] :
        pm \in OrthologPointLists, ph \in OrthologPointLists,
        ord \in GroupOrderRows}

CallGetMchBoxTwoSpeciesGrouped ==
    \E d \in GroupedData :
        /\ call = NoCall
        /\ call' = Finish("get_mch_box_two_species",
                          [gene_mmu |-> Str(M1), gene_hsa |-> Str(H1), outliers |-> TRUE],
                          d, get_mch_box_two_species(d, "mch", Str(M1), Str(H1), TRUE))
        /\ UNCHANGED <<trace_colors, rcc, gcp>>

NextOrder ==
    \/ CallGetOrthologClusterOrder
    \/ CallGetMchBoxTwoSpeciesGrouped
    \/ Respond

SpecOrder == Init /\ [][NextOrder]_vars

-----------------------------------------------------------------------------
(* Properties of the one-shot calls, checked under Spec *)

Events(log) == {log[i] : i \in DOMAIN log}
IsCall(op) == call # NoCall /\ call.op = op

\* C1 as stated: for a non-NaN value and start <= end the result is the value
\* clipped to [start, end], for NaN it is 'grey', and passing the result
\* through a second time with the same bounds returns it unchanged.
C1_Idempotent ==
    IsCall("set_color_by_percentile") =>
        LET a == call.args
        IN /\ (~a.again /\ a.this.t = "float") =>
                /\ call.out.kind = "return"
                /\ call.out.val = (IF a.this.v < a.start.v THEN a.start
                                   ELSE IF a.this.v > a.end.v THEN a.end ELSE a.this)
                /\ a.start.v <= call.out.val.v /\ call.out.val.v <= a.end.v
           /\ (~a.again /\ a.this = NaN) => call.out = Return(Str(<<"grey">>))
           /\ a.again => call.out = Return(a.this)

\* C1 amended: as C1, but the second pass returns its argument unchanged only
\* for the result of a non-NaN value.
C1_Clipped ==
    IsCall("set_color_by_percentile") =>
        LET a == call.args
        IN /\ (~a.again /\ a.this.t = "float") =>
                /\ call.out.kind = "return"
                /\ call.out.val = (IF a.this.v < a.start.v THEN a.start
                                   ELSE IF a.this.v > a.end.v THEN a.end ELSE a.this)
                /\ a.start.v <= call.out.val.v /\ call.out.val.v <= a.end.v
           /\ (~a.again /\ a.this = NaN) => call.out = Return(Str(<<"grey">>))
           /\ (a.again /\ a.this.t = "float") => call.out = Return(a.this)

\* A value above the upper bound was clipped and the result passed through again
C1_Witness ==
    /\ IsCall("set_color_by_percentile")
    /\ call.args.again
    /\ call.args.this = call.args.end
    /\ call.args.start.v < call.args.end.v
    /\ call.out = Return(call.args.end)

\* A row of gene_names matches the query of gene_id_to_name
HasNameRow(d, species, gene) ==
    /\ gene.t = "str"
    /\ \E i \in DOMAIN d.names[species].rows :
          IsPrefix(gene.v, d.names[species].rows[i].v.geneID.v)

\* C2: get_methylation_scatter raises FailToGraphException, and nothing else,
\* when the species does not exist or when a queried gene has no data file or
\* no row in gene_names, for one gene and for several.
C2_NoPointsFailsToGraph ==
    IsCall("get_methylation_scatter") =>
        LET d == call.data
            species == call.args.species
            query == call.args.query
        IN (\/ ~species_exists(d, species)
            \/ \E i \in DOMAIN query :
                  \/ ~gene_exists(d, species, query[i])
                  \/ ~HasNameRow(d, species, query[i]))
           => call.out = Raise("FailToGraphException")

\* C4: when the human or the mouse median table is empty,
\* get_mch_heatmap_two_species raises FailToGraphException and returns nothing.
C4_EmptyTableRaises ==
    IsCall("get_mch_heatmap_two_species") =>
        LET df == HeatmapTables(call.data, call.args.species, "mch", call.args.query)
        IN (Returned(df) /\ (FrameEmpty(df.out.val.hsa) \/ FrameEmpty(df.out.val.mmu)))
           => call.out = Raise("FailToGraphException")

\* What get_gene_methylation yields for the converted gene
ConvertedPoints(d, species, gene, outliers) ==
    Then(convert_geneID_mmu_hsa(d, species, gene), LAMBDA g :
         get_gene_methylation(d, species, "mch", g, outliers))

Yields(r) == r.out.kind = "return"
YieldsNothing(r) == r.out.kind = "return" /\ ~Truthy(r.out.val)

NothingBuilt(log) ==
    Events(log) \cap {"gene_id_to_name", "generate_cluster_colors", "Box"} = {}

C9_AlwaysADict ==
    (IsCall("find_orthologs") /\ call.data.orth.st # "unopenable") =>
        LET a == call.args
            db == call.data.orth
            given == Truthy(a.mmu_gid) \/ Truthy(a.hsa_gid)
            matches == {i \in DOMAIN db.rows :
                          IF Truthy(a.mmu_gid) THEN db.rows[i].v.mmu_gID = a.mmu_gid
                          ELSE db.rows[i].v.hsa_gID = a.hsa_gid}
        IN /\ call.out.kind = "return"
           /\ call.out.val.t = "dict"
           /\ DOMAIN call.out.val.v = {"mmu_gID", "hsa_gID"}
           /\ ~given => call.out.val = NoOrtholog /\ "sqlite3.connect" \notin Events(call.log)
           /\ (given /\ (db.st = "error" \/ matches = {})) => call.out.val = NoOrtholog
           /\ (given /\ db.st = "ok" /\ matches # {}) =>
                 \E i \in matches : call.out.val = db.rows[i]

\* C10: for an existing species and a non-empty gene ID, gene_id_to_name
\* returns the dict of a matching row, or an empty or None result when no row
\* matches or the query fails; it never raises.
C10_NeverRaises ==
    (/\ IsCall("gene_id_to_name")
     /\ species_exists(call.data, call.args.species)
     /\ call.args.query.t = "str" /\ call.args.query.v # EmptyStr
     /\ call.data.names[call.args.species].st # "unopenable") =>
        LET db == call.data.names[call.args.species]
            found == HasNameRow(call.data, call.args.species, call.args.query)
        IN /\ call.out.kind = "return"
           /\ (db.st = "ok" /\ found) =>
                 /\ call.out.val.t = "dict"
                 /\ \E i \in DOMAIN db.rows : call.out.val = db.rows[i]
           /\ (db.st = "error" \/ ~found) => call.out.val \in {None, List(<<>>)}

-----------------------------------------------------------------------------
(* Properties of get_cluster_plot, checked under SpecPlot *)

\* C3: get_cluster_plot raises FailToGraphException whenever the cluster
\* points of the species cannot be loaded or are empty, with 3D data and with
\* 2D data only.
C3_NoPointsFailsToGraph ==
    IsCall("get_cluster_plot") =>
        LET d == call.data
            species == call.args.species
            file == IF is_3D_data_exists(d, species) THEN d.tsne3d[species]
                    ELSE d.tsne[species]
        IN (~species_exists(d, species) \/ file.st # "ok" \/ file.pts = <<>>)
           => call.out = Raise("FailToGraphException")

-----------------------------------------------------------------------------
(* Properties of randomize_cluster_colors, checked under SpecColors *)

\* C6 as stated: every call makes a single attempt; no operation calls itself
\* again after a failure.
C6_SingleAttempt == rcc # Idle => rcc.depth = 1

\* C6 amended: randomize_cluster_colors calls itself again, one level deeper,
\* only after an attempt that generated the colours and found trace_colors
\* undefined; get_cluster_plot, once started, is not started again before it
\* has answered.
C6_RetryOnlyWhenUndefined ==
    [][/\ (rcc # Idle /\ rcc' # Idle /\ rcc'.depth # rcc.depth) =>
            /\ rcc.pc = "sleep"
            /\ rcc.seen = Undefined
            /\ rcc.num >= 3
            /\ rcc'.depth = rcc.depth + 1
            /\ rcc'.num = rcc.num
       /\ (gcp # Idle /\ gcp' # Idle /\ gcp'.pc = "reset") => gcp.pc = "reset"]_vars

\* A call is in its second attempt
C6_Witness == rcc # Idle /\ rcc.depth = 2 /\ rcc.pc = "try"

\* C7: every call of randomize_cluster_colors(num) that returns yields a dict
\* with the colours just generated under 'colors', num under 'num_colors' and
\* every cluster_color entry of the trace_colors it read, also when the call
\* first found trace_colors undefined.
C7_ReturnsTheDict ==
    (rcc # Idle /\ rcc.pc = "done" /\ rcc.out.kind = "return") =>
        /\ rcc.out.val.t = "dict"
        /\ rcc.out.val.v[<<"colors">>] = generate_cluster_colors(rcc.num, rcc.seed).out.val
        /\ rcc.out.val.v[<<"num_colors">>] = Num(rcc.num)
        /\ \A k \in DOMAIN rcc.seen.v :
              k \in DOMAIN rcc.out.val.v /\ rcc.out.val.v[k] = rcc.seen.v[k]

-----------------------------------------------------------------------------
(* Properties of the lookup helpers, checked under SpecLookup *)

IsMouseSpecies(species) == species = "mouse_published" \/ species = "mmu"

\* The gene ID carries the Ensembl header of the species
BelongsTo(species, geneID) ==
    /\ geneID.t = "str"
    /\ Contains(geneID.v, "ENSMUSG") <=> IsMouseSpecies(species)

\* C11: convert_geneID_mmu_hsa returns a gene ID string of the given
\* species (the input when it belongs to the species, else its ortholog), and
\* converting the result again for the same species returns it unchanged
\* (stated for an orthologs table that can be queried).
C11_ReturnsSpeciesID ==
    (IsCall("convert_geneID_mmu_hsa") /\ call.data.orth.st = "ok") =>
        /\ call.out.kind = "return"
        /\ BelongsTo(call.args.species, call.out.val)
        /\ BelongsTo(call.args.species, call.args.geneID) => call.out.val = call.args.geneID
        /\ call.args.again => call.out.val = call.args.geneID

\* The data of the call: the species' directory and the gene's file exist
HasGeneData(c) ==
    /\ species_exists(c.data, c.args.species)
    /\ gene_exists(c.data, c.args.species, c.args.gene)

\* rows is the left join of the points pts with the methylation rows mch on
\* samp, in non-decreasing cluster_ordered order
IsSortedLeftJoin(rows, pts, mch) ==
    /\ \A i \in DOMAIN pts : \E k \in DOMAIN rows : rows[k].samp = pts[i].samp
    /\ \A k \in DOMAIN rows :
          /\ \E i \in DOMAIN pts : /\ rows[k].samp = pts[i].samp
                                   /\ rows[k].cluster_ordered = pts[i].cluster_ordered
          /\ IF \E j \in DOMAIN mch : mch[j].samp = rows[k].samp
             THEN \E j \in DOMAIN mch : /\ mch[j].samp = rows[k].samp
                                        /\ rows[k].normalized = Num(mch[j].normalized)
             ELSE rows[k].normalized = NaN
    /\ \A i \in DOMAIN pts :
          LET hits == {j \in DOMAIN mch : mch[j].samp = pts[i].samp}
              got == {k \in DOMAIN rows : rows[k].samp = pts[i].samp}
          IN Cardinality(got) = IF hits = {} THEN 1 ELSE Cardinality(hits)
    /\ \A k, l \in DOMAIN rows :
          k < l => rows[k].cluster_ordered <= rows[l].cluster_ordered

\* C12 (for a gene file that holds rows): get_gene_methylation
\* returns [] when the species or the gene's data does not exist; otherwise,
\* with outliers=True, it returns the cluster points left-joined with the
\* gene's rows on samp, in non-decreasing cluster_ordered order.
C12_EmptyOrSortedLeftJoin ==
    (IsCall("get_gene_methylation") /\ FileRows(call.data, call.args.gene) # <<>>) =>
        IF ~HasGeneData(call) THEN call.out = Return(List(<<>>))
        ELSE call.args.outliers =>
                /\ call.out.kind = "return"
                /\ call.out.val.t = "list"
                /\ IsSortedLeftJoin(call.out.val.v,
                                    call.data.tsne[call.args.species].pts,
                                    FileRows(call.data, call.args.gene))

\* The rows of the species' gene_names table that satisfy Match
NameMatches(c, Match(_)) ==
    {i \in DOMAIN c.data.names[c.args.species].rows :
        Match(c.data.names[c.args.species].rows[i].v.geneName.v)}

\* The call returned a list of at most 50 rows of the table, each satisfying
\* Match and all of them when fewer than 50 do, and [] when the species does
\* not exist or the query failed
SearchReturns(c, Match(_)) ==
    /\ c.out.kind = "return"
    /\ c.out.val.t = "list"
    /\ Len(c.out.val.v) <= 50
    /\ \A k \in DOMAIN c.out.val.v :
          \E i \in NameMatches(c, Match) :
              c.out.val.v[k] = c.data.names[c.args.species].rows[i]
    /\ (~species_exists(c.data, c.args.species)
        \/ c.data.names[c.args.species].st = "error") => c.out.val.v = <<>>
    /\ (species_exists(c.data, c.args.species)
        /\ c.data.names[c.args.species].st = "ok"
        /\ Cardinality(NameMatches(c, Match)) <= 50)
          => Len(c.out.val.v) = Cardinality(NameMatches(c, Match))

SearchCase == IsCall("search_gene_names") /\ call.data.names[call.args.species].st # "unopenable"

RECURSIVE JoinedEntries(_)
JoinedEntries(labels) ==
    IF labels = <<>> THEN <<>>
    ELSE Head(labels).k \o <<":", " ">> \o Head(labels).v
         \o (IF Tail(labels) = <<>> THEN <<>> ELSE BR \o JoinedEntries(Tail(labels)))

\* C14: build_hover_text returns the entries rendered as 'key: value' in dict
\* order and joined by '<br>', with no leading or trailing '<br>' and no other
\* character of a key or value removed.
C14_EntriesJoinedByBr ==
    IsCall("build_hover_text") =>
        call.out = Return(Str(JoinedEntries(call.args.labels)))

\* C15: get_mch_heatmap and get_mch_heatmap_two_species take the first and
\* last colour-bar ticks from the ptile_start and ptile_end percentiles of the
\* plotted values.
C15_RangeFromPercentiles ==
    IsCall("colorbar") =>
        /\ call.out.val.first = Quantile(call.args.flat_mch, call.args.ptile_start)
        /\ call.out.val.last = Quantile(call.args.flat_mch, call.args.ptile_end)

\* C18: all_gene_modules returns each module name present in gene_modules.tsv
\* exactly once, whatever the order of the rows in the file, and an empty list
\* when the file cannot be found.
C18_EachModuleOnce ==
    IsCall("all_gene_modules") =>
        /\ call.out.kind = "return"
        /\ call.out.val.t = "list"
        /\ LET modules == call.out.val.v
               rows == call.data.modules.rows
           IN IF call.data.modules.st # "ok" THEN modules = <<>>
              ELSE /\ {modules[i].v.module : i \in DOMAIN modules}
                        = {rows[k] : k \in DOMAIN rows}
                   /\ \A i, j \in DOMAIN modules : i # j => modules[i] # modules[j]

\* Every gene the corr_genes table names has a row in gene_names
CorrGenesNamed(d, species) ==
    /\ d.names[species].st = "ok"
    /\ \A k \in DOMAIN d.corr.rows : HasNameRow(d, species, d.corr.rows[k].Gene2)

\* C19: get_corr_genes returns a list of at most 50 entries whose Rank values
\* are 1, 2, ..., n in list order and whose Corr values are non-increasing
\* (stated for a database that opens and names every correlated gene).
C19_RankedList ==
    (IsCall("get_corr_genes") /\ call.data.corr.st # "unopenable"
        /\ CorrGenesNamed(call.data, call.args.species)) =>
        /\ call.out.kind = "return"
        /\ call.out.val.t = "list"
        /\ LET table == call.out.val.v
           IN /\ Len(table) <= 50
              /\ \A i \in DOMAIN table : table[i].v.Rank = i
              /\ \A i, j \in DOMAIN table : i < j => table[i].v.Corr >= table[j].v.Corr

\* C20: for every num from 1 to 35, generate_cluster_colors(num) returns a
\* list of exactly num colour strings.
C20_NumColours ==
    IsCall("generate_cluster_colors") =>
        /\ call.out.kind = "return"
        /\ call.out.val.t = "list"
        /\ Len(call.out.val.v) = call.args.num

-----------------------------------------------------------------------------
(* Properties of the ortholog cluster order, checked under SpecOrder *)

\* The cluster groups of a figure in the order of the category axis: the x
\* values of the traces in order of first appearance
RECURSIVE FirstAppearances(_, _)
FirstAppearances(xs, seen) ==
    IF xs = <<>> THEN seen
    ELSE FirstAppearances(Tail(xs),
                          IF \E i \in DOMAIN seen : seen[i] = Head(xs) THEN seen
                          ELSE Append(seen, Head(xs)))

GroupOrder(figure) == FirstAppearances(figure.data[1] \o figure.data[2], <<>>)

\* The places in the cluster order of the clusters that carry the ortholog
\* label g in the species' tSNE files
PlacesOf(d, g, cluster_order) ==
    {k \in DOMAIN cluster_order :
        LET species == IF cluster_order[k][1] = "mmu" THEN "mouse_published"
                       ELSE "human_hv1_published"
        IN \E i \in DOMAIN d.tsne[species].pts :
              /\ d.tsne[species].pts[i].cluster_ordered = cluster_order[k][2]
              /\ d.tsne[species].pts[i].cluster_ortholog = g}

FirstPlace(places) == CHOOSE k \in places : \A l \in places : k <= l

\* C16: get_mch_box_two_species places the cluster groups of its box traces in
\* the order given by get_ortholog_cluster_order: a group whose clusters come
\* first in mm_hs_homologous_cluster.txt comes first in the figure.
C16_GroupsInClusterOrder ==
    (IsCall("get_mch_box_two_species") /\ call.out.kind = "return") =>
        LET groups == GroupOrder(call.out.val)
            order == ClusterOrder(call.data.order.rows, <<>>)
            Places(i) == PlacesOf(call.data, groups[i], order)
        IN \A i, j \in DOMAIN groups :
              (i < j /\ Places(i) # {} /\ Places(j) # {})
                  => FirstPlace(Places(i)) <= FirstPlace(Places(j))

\* The tuples of mm_hs_homologous_cluster.txt in reading order: the mouse
\* tuple of a row, then its human tuple
FileTuples(rows) ==
    [k \in 1..(2 * Len(rows)) |->
        IF k % 2 = 1 THEN <<"mmu", rows[(k + 1) \div 2].mouse>>
        ELSE <<"hsa", rows[k \div 2].human>>]

FirstAt(tuples, x) == CHOOSE k \in DOMAIN tuples : tuples[k] = x /\ \A l \in 1..(k - 1) : tuples[l] # x

\* C17: get_ortholog_cluster_order returns every (species, cluster_number)
\* tuple of mm_hs_homologous_cluster.txt exactly once, in order of first
\* appearance with the mouse tuple of a row before its human tuple, and an
\* empty list when the file cannot be read.
C17_EachTupleOnceInFileOrder ==
    IsCall("get_ortholog_cluster_order") =>
        /\ call.out.kind = "return"
        /\ call.out.val.t = "list"
        /\ LET clusters == call.out.val.v
               tuples == FileTuples(call.data.order.rows)
           IN IF call.data.order.st # "ok" THEN clusters = <<>>
              ELSE /\ {clusters[i] : i \in DOMAIN clusters} = {tuples[k] : k \in DOMAIN tuples}
                   /\ \A i, j \in DOMAIN clusters : i # j => clusters[i] # clusters[j]
                   /\ \A i, j \in DOMAIN clusters :
                         i < j => FirstAt(tuples, clusters[i]) < FirstAt(tuples, clusters[j])

\* A file in which a tuple is repeated has been read
C17_Witness ==
    /\ IsCall("get_ortholog_cluster_order")
    /\ call.data.order.st = "ok"
    /\ call.out.kind = "return"
    /\ Len(call.data.order.rows) > 1
    /\ Len(call.out.val.v) > 1
    /\ Len(call.out.val.v) < 2 * Len(call.data.order.rows)

-----------------------------------------------------------------------------
(* Properties of a server that handles one request at a time, checked      *)
(* under SpecServe                                                         *)

\* C21: every call of randomize_cluster_colors eventually returns, also a
\* call made when get_cluster_plot has never run in the process and the
\* server handles one request at a time.  Stated for the colour counts that
\* generate_cluster_colors serves (num >= 3).
C21_EventuallyReturns ==
    (rcc # Idle /\ rcc.num >= 3)
        ~> (rcc # Idle /\ rcc.pc = "done" /\ rcc.out.kind = "return")

-----------------------------------------------------------------------------
(* Properties of the interleaved handlers, checked under SpecColors *)

\* The 'cluster_color_<k>' entries of a dict
ClusterColorLists(dict) ==
    [k \in {x \in DOMAIN dict.v : x[1] = "cluster_color"} |-> dict.v[k]]

\* The maps that the get_cluster_plot calls of the model leave in trace_colors
\* when they run to their end and return
CompletedMaps ==
    LET calls == {get_cluster_plot(d, "human_hv1_published", grouping, 1) :
                     d \in ThreadPlotData, grouping \in Groupings}
    IN {ClusterColorLists(r.tc) : r \in {x \in calls : x.out.kind = "return"}}

\* C22: when calls of get_cluster_plot and randomize_cluster_colors
\* interleave, the 'cluster_color_<k>' index lists that randomize_cluster_colors
\* returns are those of one completed get_cluster_plot call: never the empty
\* map left by the reset, never a partly built map.
C22_MapOfACompletedCall ==
    (rcc # Idle /\ rcc.pc = "done" /\ rcc.out.kind = "return" /\ rcc.out.val.t = "dict")
        => ClusterColorLists(rcc.out.val) \in CompletedMaps

-----------------------------------------------------------------------------
(* Properties of get_mult_gene_methylation, checked under SpecLookup *)

\* The queried genes that have a data file in the dataset directory named
\* after the species, by their places in the query
GenesWithData(d, species, genes) ==
    {i \in DOMAIN genes : "own" \in GlobDirs(d, species, genes[i])}

\* The rows that the files of those genes hold for a sample: pairs of the
\* place of the gene in the query and the place of the row in its file
RowsOfSample(d, species, genes, samp) ==
    UNION {{<<i, j>> : j \in {k \in DOMAIN FileRows(d, genes[i]) :
                                FileRows(d, genes[i])[k].samp = samp}} :
           i \in GenesWithData(d, species, genes)}

RECURSIVE SumOfRows(_, _, _)
SumOfRows(d, genes, xs) ==
    IF xs = {} THEN 0
    ELSE LET x == CHOOSE y \in xs : TRUE
         IN FileRows(d, genes[x[1]])[x[2]].normalized + SumOfRows(d, genes, xs \ {x})

\* C23: get_mult_gene_methylation averages, per sample, over exactly the
\* queried genes for which gene_exists is true; a queried gene without a data
\* file in the dataset directory named after the species, and a query in which
\* no gene has data, are skipped rather than aborting the call with an
\* exception.
C23_SkipsGenesWithoutData ==
    (/\ IsCall("get_mult_gene_methylation")
     /\ species_exists(call.data, call.args.species)
     /\ call.args.genes # <<>>) =>
        LET d == call.data
            species == call.args.species
            genes == call.args.genes
            Rows(samp) == RowsOfSample(d, species, genes, samp)
            Mean(samp) ==
                IF Rows(samp) = {} THEN NaN
                ELSE Num([sum |-> SumOfRows(d, genes, Rows(samp)),
                          n |-> Cardinality(Rows(samp))])
        IN /\ call.out.kind = "return"
           /\ call.out.val.t = "list"
           /\ \A i \in DOMAIN call.out.val.v :
                 call.out.val.v[i].normalized = Mean(call.out.val.v[i].samp)

====
